---------------------------- MODULE Spec2Model ----------------------------
(***************************************************************************)
(* The IMDb cleaning / feature / insight pipeline of the two entry points  *)
(* IMDB_data_analysis.py and imdb.py, as a state machine: one action per   *)
(* statement of main() between read_csv and the first chart.               *)
(*                                                                         *)
(* A text is a sequence of one-character strings.  A cell of the table is  *)
(* a record with a kind: "str" (a text s), "nan" (pandas NaN, the missing  *)
(* value of every column), "fin" (the non-negative float num/den), "inf"   *)
(* (the float infinity) or "int" (the integer v).  read_csv never yields   *)
(* an empty text cell: an empty field is read as NaN.                      *)
(***************************************************************************)
EXTENDS Integers, Sequences, FiniteSets, TLC

VARIABLES
    variant,    \* which entry point runs: "IMDB_data_analysis" or "imdb"
    pandas3,    \* the installed pandas is 3.x (copy-on-write, str dtype)
    raw,        \* the table as read_csv returned it
    df,         \* the data frame: a sequence of rows (records), in order
    pc,         \* the statement of main() that runs next
    err,        \* the exception that ended the run ("" while none)
    insights,   \* the three lookups of the insight step
    ghist       \* a genre string and its successive normalizations

vars == <<variant, pandas3, raw, df, pc, err, insights, ghist>>

----------------------------------------------------------------------------
(* Bounds *)

MaxRows == 3        \* rows of a raw table
MaxGrossRows == 4   \* rows of a raw table of the gross family
MaxLen == 4         \* characters of a genre string given to clean_genre

----------------------------------------------------------------------------
(* Text *)

NaN == [kind |-> "nan"]

Str(s) == [kind |-> "str", s |-> s]

Int64(n) == [kind |-> "int", v |-> n]

IsNull(cell) == cell.kind = "nan"

\* The characters of the model in code point order.
CharOrder ==
    << " ", ",", ".", "0", "1", "2", "3", "4", "5", "6", "7", "8", "9",
       "A", "B", "G", "N", "P", "R", "T", "X", "Y",
       "a", "d", "e", "f", "h", "i", "m", "n", "o", "t", "x" >>

Ord(c) == CHOOSE i \in 1..Len(CharOrder) : CharOrder[i] = c

Digits == {"0", "1", "2", "3", "4", "5", "6", "7", "8", "9"}

DigitVal(c) == Ord(c) - Ord("0")

\* Python's < on str: lexicographic by code point.
RECURSIVE StrLess(_, _)
StrLess(s, t) ==
    IF t = <<>> THEN FALSE
    ELSE IF s = <<>> THEN TRUE
    ELSE IF Head(s) = Head(t) THEN StrLess(Tail(s), Tail(t))
    ELSE Ord(Head(s)) < Ord(Head(t))

IsPrefix(p, s) == Len(p) <= Len(s) /\ SubSeq(s, 1, Len(p)) = p

\* str.split(sep) for a non-empty sep: the pieces between the
\* non-overlapping occurrences of sep, scanning from the left.
RECURSIVE SplitFrom(_, _, _)
SplitFrom(s, sep, cur) ==
    IF s = <<>> THEN <<cur>>
    ELSE IF IsPrefix(sep, s)
         THEN <<cur>> \o SplitFrom(SubSeq(s, Len(sep) + 1, Len(s)), sep, <<>>)
         ELSE SplitFrom(Tail(s), sep, Append(cur, Head(s)))

Split(s, sep) == SplitFrom(s, sep, <<>>)

\* str.strip(): leading and trailing whitespace removed.
RECURSIVE LStrip(_)
LStrip(s) == IF s # <<>> /\ Head(s) = " " THEN LStrip(Tail(s)) ELSE s

RECURSIVE RStrip(_)
RStrip(s) ==
    IF s # <<>> /\ s[Len(s)] = " " THEN RStrip(SubSeq(s, 1, Len(s) - 1)) ELSE s

Strip(s) == RStrip(LStrip(s))

\* sep.join(parts)
RECURSIVE Join(_, _)
Join(parts, sep) ==
    IF parts = <<>> THEN <<>>
    ELSE IF Len(parts) = 1 THEN parts[1]
    ELSE parts[1] \o sep \o Join(Tail(parts), sep)

\* sorted(parts): ascending, stable (insertion after the equal elements).
RECURSIVE InsertSorted(_, _)
InsertSorted(x, sorted) ==
    IF sorted = <<>> THEN <<x>>
    ELSE IF StrLess(x, Head(sorted)) THEN <<x>> \o sorted
    ELSE <<Head(sorted)>> \o InsertSorted(x, Tail(sorted))

RECURSIVE Sorted(_)
Sorted(parts) ==
    IF parts = <<>> THEN <<>>
    ELSE InsertSorted(parts[Len(parts)], Sorted(SubSeq(parts, 1, Len(parts) - 1)))

StripAll(parts) == [i \in 1..Len(parts) |-> Strip(parts[i])] \o <<>>

\* The variant that sorts the tokens without trimming them.
clean_genre_nostrip(g) == Join(Sorted(Split(g, <<",">>)), <<",", " ">>)

\* ", ".join(sorted([x.strip() for x in g.split(',')]))
clean_genre(g) == Join(Sorted(StripAll(Split(g, <<",">>))), <<",", " ">>)

----------------------------------------------------------------------------
(* Numbers *)

RECURSIVE GCD(_, _)
GCD(a, b) == IF b = 0 THEN a ELSE GCD(b, a % b)

FInf == [kind |-> "inf"]

\* The float num/den, in lowest terms.
Fin(n, d) ==
    LET g == GCD(n, d)
    IN  [kind |-> "fin", num |-> n \div g, den |-> d \div g]

FromInt(n) == Fin(n, 1)

\* a < b on floats that are not nan.
FLess(a, b) ==
    /\ a.kind = "fin"
    /\ \/ b.kind = "inf"
       \/ b.kind = "fin" /\ a.num * b.den < b.num * a.den

\* (a + b) / 2
Mean2(a, b) ==
    IF a.kind = "inf" \/ b.kind = "inf" THEN FInf
    ELSE Fin(a.num * b.den + b.num * a.den, 2 * a.den * b.den)

\* int(x) of a finite non-negative float: truncation.
Trunc(x) == x.num \div x.den

RECURSIVE DigitsToInt(_)
DigitsToInt(s) ==
    IF s = <<>> THEN 0
    ELSE 10 * DigitsToInt(SubSeq(s, 1, Len(s) - 1)) + DigitVal(s[Len(s)])

RECURSIVE Pow10(_)
Pow10(n) == IF n = 0 THEN 1 ELSE 10 * Pow10(n - 1)

AllDigits(s) == \A i \in 1..Len(s) : s[i] \in Digits

RECURSIVE RemoveChar(_, _)
RemoveChar(s, c) ==
    IF s = <<>> THEN <<>>
    ELSE IF Head(s) = c THEN RemoveChar(Tail(s), c)
    ELSE <<Head(s)>> \o RemoveChar(Tail(s), c)

\* The number a text writes: "inf" is the float infinity, a decimal
\* numeral (digits with at most one point) is its value, any other text
\* is no number (nan).  The texts of the model carry no sign, exponent or
\* surrounding blanks.
ParseNumber(s) ==
    IF s = <<"i", "n", "f">> THEN FInf
    ELSE LET dots == { i \in 1..Len(s) : s[i] = "." }
             ds   == RemoveChar(s, ".")
         IN  IF Cardinality(dots) <= 1 /\ ds # <<>> /\ AllDigits(ds)
             THEN IF dots = {}
                  THEN FromInt(DigitsToInt(ds))
                  ELSE LET k == CHOOSE i \in dots : TRUE
                       IN  Fin(DigitsToInt(ds), Pow10(Len(s) - k))
             ELSE NaN

\* pd.to_numeric(cell, errors='coerce') on one cell: a text becomes the
\* number it writes, nan when it writes none; a number stays as it is.
StrToNumeric(cell) == IF cell.kind = "str" THEN ParseNumber(cell.s) ELSE cell

\* Series.str.replace(',', '', regex=False) on one cell (NaN stays NaN).
StripCommas(cell) ==
    IF cell.kind = "str" THEN Str(RemoveChar(cell.s, ",")) ELSE cell

\* Series.str.extract(r'(\d+)') on one cell: the first maximal run of
\* digits, NaN when the cell is missing or holds no digit.
RECURSIVE TakeDigits(_)
TakeDigits(s) ==
    IF s # <<>> /\ Head(s) \in Digits
    THEN <<Head(s)>> \o TakeDigits(Tail(s))
    ELSE <<>>

RECURSIVE SkipNonDigits(_)
SkipNonDigits(s) ==
    IF s # <<>> /\ Head(s) \notin Digits THEN SkipNonDigits(Tail(s)) ELSE s

ExtractDigits(cell) ==
    IF cell.kind # "str" \/ SkipNonDigits(cell.s) = <<>> THEN NaN
    ELSE Str(TakeDigits(SkipNonDigits(cell.s)))

\* Series.median(): nan skipped; the middle value of the sorted values,
\* the mean of the two middle values for an even count, nan for none.
RECURSIVE InsertFloat(_, _)
InsertFloat(x, sorted) ==
    IF sorted = <<>> THEN <<x>>
    ELSE IF FLess(x, Head(sorted)) THEN <<x>> \o sorted
    ELSE <<Head(sorted)>> \o InsertFloat(x, Tail(sorted))

RECURSIVE SortFloats(_)
SortFloats(xs) ==
    IF xs = <<>> THEN <<>> ELSE InsertFloat(Head(xs), SortFloats(Tail(xs)))

NotNan(x) == x.kind # "nan"

Median(xs) ==
    LET v == SortFloats(SelectSeq(xs, NotNan))
        n == Len(v)
    IN  IF n = 0 THEN NaN
        ELSE IF n % 2 = 1 THEN v[(n + 1) \div 2]
        ELSE Mean2(v[n \div 2], v[n \div 2 + 1])


----------------------------------------------------------------------------
(* Rows and columns *)

\* df[col] = value: the column added or replaced in one row.
Ext(row, col, v) == [k \in DOMAIN row \cup {col} |-> IF k = col THEN v ELSE row[k]]

\* The row without the column.
Del(row, col) == [k \in DOMAIN row \ {col} |-> row[k]]

Column(table, col) == [i \in 1..Len(table) |-> table[i][col]] \o <<>>

\* The rows of the table at the positions in keep, in table order.
RECURSIVE SelectIdx(_, _, _)
SelectIdx(table, keep, i) ==
    IF i > Len(table) THEN <<>>
    ELSE (IF i \in keep THEN <<table[i]>> ELSE <<>>) \o SelectIdx(table, keep, i + 1)

\* DataFrame.dropna(subset=cols): the rows with none of cols missing.
DropNa(table, cols) ==
    SelectIdx(table, { i \in 1..Len(table) : \A c \in cols : ~IsNull(table[i][c]) }, 1)

\* The dtype read_csv infers for a column: object for a column of no rows
\* or with a text that is no number (str under pandas 3), float64 for
\* numbers with a missing or fractional one, int64 for integers.
ColumnDtype(col) ==
    IF Len(raw) = 0 THEN "object"
    ELSE IF \E i \in 1..Len(raw) :
              ~IsNull(raw[i][col]) /\ StrToNumeric(raw[i][col]).kind = "nan"
         THEN (IF pandas3 THEN "str" ELSE "object")
    ELSE IF \A i \in 1..Len(raw) :
              StrToNumeric(raw[i][col]).kind = "fin" /\ StrToNumeric(raw[i][col]).den = 1
         THEN "int64"
    ELSE "float64"

\* Series.str is there for text columns only (AttributeError otherwise).
HasStrAccessor(col) == ColumnDtype(col) \in {"object", "str"}

----------------------------------------------------------------------------
(* Raw tables *)

Txt_PG == Str(<<"P", "G">>)
Txt_R == Str(<<"R">>)
Txt_NotRated == Str(<<"N", "o", "t", " ", "R", "a", "t", "e", "d">>)
Txt_1994 == Str(<<"1", "9", "9", "4">>)
Txt_2005 == Str(<<"2", "0", "0", "5">>)
Txt_1994_5 == Str(<<"1", "9", "9", "4", ".", "5">>)
Txt_inf == Str(<<"i", "n", "f">>)
Txt_142min == Str(<<"1", "4", "2", " ", "m", "i", "n">>)
Txt_1h30 == Str(<<"1", "h", " ", "3", "0">>)
Txt_min == Str(<<"m", "i", "n">>)
Txt_A == Str(<<"A">>)
Txt_B == Str(<<"B">>)
Txt_B_A == Str(<<"B", ",", "A">>)
Txt_X == Str(<<"X">>)
Txt_Y == Str(<<"Y">>)
Txt_G == Str(<<"G">>)
Txt_10 == Str(<<"1", "0">>)
Txt_20 == Str(<<"2", "0">>)
Txt_30 == Str(<<"3", "0">>)
Txt_1_500 == Str(<<"1", ",", "5", "0", "0">>)
Txt_x == Str(<<"x">>)

\* The title of the i-th row of a table whose titles all differ.
TitleOf(i) == Str(<<"T", CharOrder[Ord("0") + i]>>)

BaseRow(i) ==
    [ idx           |-> i,
      Series_Title  |-> TitleOf(i),
      Released_Year |-> Txt_1994,
      Certificate   |-> Txt_PG,
      Runtime       |-> Txt_142min,
      Genre         |-> Txt_A,
      Director      |-> Txt_X,
      Gross         |-> Txt_10 ]

Override(row, o) == [k \in DOMAIN row |-> IF k \in DOMAIN o THEN o[k] ELSE row[k]]

\* The tables of at most n rows whose i-th row is BaseRow(i) with the
\* cells of one member of family replaced.
Tables(family, n) ==
    UNION { { [i \in 1..k |-> Override(BaseRow(i), c[i])] : c \in [1..k -> family] }
            : k \in 0..n }

\* A missing certificate or one missing critical field.
NullFamily ==
    { [Certificate |-> Txt_PG], [Certificate |-> NaN], [Genre |-> NaN],
      [Director |-> NaN], [Series_Title |-> NaN], [Released_Year |-> NaN] }

CertificateFamily == { [Certificate |-> c] : c \in {Txt_PG, Txt_R, NaN} }

\* Repeated titles with differing certificates.
DupFamily ==
    { [Series_Title |-> t, Certificate |-> c] :
        t \in {Txt_A, Txt_B}, c \in {Txt_PG, Txt_R} }

\* Repeated titles with and without a runtime that holds digits.
DupRuntimeFamily ==
    { [Series_Title |-> t, Runtime |-> r] :
        t \in {Txt_A, Txt_B}, r \in {Txt_142min, Txt_min} }

RuntimeFamily == { [Runtime |-> r] : r \in {Txt_142min, Txt_1h30, Txt_min, NaN} }

YearFamily ==
    { [Released_Year |-> y] :
        y \in {Txt_1994, Txt_2005, Txt_PG, Txt_inf, Txt_1994_5, NaN} }

GenreFamily == { [Genre |-> g] : g \in {Txt_B, Txt_A, Txt_B_A} }

DirectorFamily == { [Director |-> d] : d \in {Txt_Y, Txt_X, Txt_G} }

GrossFamily == { [Gross |-> g] : g \in {Txt_10, Txt_20, Txt_30, Txt_1_500, NaN} }

\* A gross that is no number, with and without its commas.
GrossTextFamily == { [Gross |-> g] : g \in {Txt_20, Txt_1_500, Txt_x, NaN} }

RawTables ==
    Tables(NullFamily, MaxRows) \cup Tables(CertificateFamily, MaxRows)
    \cup Tables(DupFamily, MaxRows) \cup Tables(DupRuntimeFamily, MaxRows)
    \cup Tables(RuntimeFamily, MaxRows) \cup Tables(YearFamily, MaxRows)
    \cup Tables(GenreFamily, MaxRows) \cup Tables(DirectorFamily, MaxRows)

GrossTables ==
    Tables(GrossFamily, MaxGrossRows) \cup Tables(GrossTextFamily, MaxRows)

NoInsight == [status |-> "none", value |-> NaN]

Unavailable == [status |-> "unavailable", value |-> NaN]

Found(v) == [status |-> "value", value |-> v]

NoInsights ==
    [highest_gross |-> NoInsight, most_common_genre |-> NoInsight,
     top_director |-> NoInsight]

EntryPoints == {"IMDB_data_analysis", "imdb"}

\* The state after pd.read_csv.  The pandas version only matters to the
\* gross column, so only the gross tables are run under both versions.
Init ==
    /\ variant \in EntryPoints
    /\ \/ raw \in RawTables /\ pandas3 = FALSE
       \/ raw \in GrossTables /\ pandas3 \in BOOLEAN
    /\ df = raw
    /\ pc = "fill_certificate"
    /\ err = ""
    /\ insights = NoInsights
    /\ ghist = <<>>

----------------------------------------------------------------------------
(* The cleaning steps *)

IsA == variant = "IMDB_data_analysis"

IsB == variant = "imdb"

Goto(next) == pc' = next /\ err' = ""

Raise(exception) == pc' = "aborted" /\ err' = exception

MapRows(table, F(_)) == [i \in 1..Len(table) |-> F(table[i])] \o <<>>

\* df['Certificate'].fillna('Not Rated')
FillCertificateRows(table) ==
    LET F(r) == [r EXCEPT !.Certificate = IF IsNull(@) THEN Txt_NotRated ELSE @]
    IN  MapRows(table, F)

FillCertificate ==
    /\ pc = "fill_certificate"
    /\ df' = FillCertificateRows(df)
    /\ Goto("parse_gross")
    /\ UNCHANGED <<variant, pandas3, raw, insights, ghist>>

\* The commas go only when the column's dtype is 'object'; then
\* pd.to_numeric(df['Gross'], errors='coerce').
ParseGrossRows(table) ==
    LET F(r) == [r EXCEPT !.Gross =
                    StrToNumeric(IF ColumnDtype("Gross") = "object"
                                 THEN StripCommas(@) ELSE @)]
    IN  MapRows(table, F)

ParseGross ==
    /\ pc = "parse_gross"
    /\ df' = ParseGrossRows(df)
    /\ Goto("fill_gross")
    /\ UNCHANGED <<variant, pandas3, raw, insights, ghist>>

\* Series.fillna(m): every nan replaced by m (by nan again when m is nan).
FillNa(table, col, m) ==
    LET F(r) == [r EXCEPT ![col] = IF IsNull(@) THEN m ELSE @]
    IN  MapRows(table, F)

median_gross(table) == Median(Column(table, "Gross"))

\* IMDB_data_analysis.py assigns the filled column back.  imdb.py fills a
\* column selected from the frame in place: under copy-on-write (pandas 3)
\* that fills a temporary copy and the frame keeps its nan.
FillGrossRows(table) ==
    IF IsB /\ pandas3 THEN table
    ELSE FillNa(table, "Gross", median_gross(table))

FillGross ==
    /\ pc = "fill_gross"
    /\ df' = FillGrossRows(df)
    /\ Goto("drop_critical")
    /\ UNCHANGED <<variant, pandas3, raw, insights, ghist>>

CriticalColumns ==
    IF IsA THEN {"Genre", "Director", "Series_Title", "Released_Year"}
    ELSE {"Genre", "Director", "Series_Title"}

\* The variant that leaves the director out of the critical fields.
DropCriticalNoDirector(table) == DropNa(table, CriticalColumns \ {"Director"})

DropCriticalRows(table) == DropNa(table, CriticalColumns)

DropCritical ==
    /\ pc = "drop_critical"
    /\ df' = DropCriticalRows(df)
    /\ Goto("parse_year")
    /\ UNCHANGED <<variant, pandas3, raw, insights, ghist>>

\* pd.to_numeric(df['Released_Year'], errors='coerce'), then
\* dropna(subset=['Released_Year']).
YearNumericRows(table) ==
    LET F(r) == [r EXCEPT !.Released_Year = StrToNumeric(@)]
        t    == MapRows(table, F)
    IN  DropNa(t, {"Released_Year"})

\* astype(int) raises on a non-finite value, and truncates the others.
ParseYear ==
    /\ pc = "parse_year"
    /\ LET t == YearNumericRows(df)
       IN  IF \E i \in 1..Len(t) : t[i].Released_Year.kind = "inf"
           THEN df' = t /\ Raise("IntCastingNaNError")
           ELSE /\ df' = [i \in 1..Len(t) |->
                            [t[i] EXCEPT !.Released_Year = Int64(Trunc(@))]]
                /\ Goto(IF IsA THEN "extract_runtime" ELSE "num_genres")
    /\ UNCHANGED <<variant, pandas3, raw, insights, ghist>>

----------------------------------------------------------------------------
(* Feature extraction *)

\* imdb.py: df['Num_Genres'] = df['Genre'].str.split(',').str.len()
NumGenres ==
    /\ pc = "num_genres"
    /\ IsB
    /\ IF ~HasStrAccessor("Genre")
       THEN df' = df /\ Raise("AttributeError")
       ELSE /\ df' = [i \in 1..Len(df) |->
                        Ext(df[i], "Num_Genres", Len(Split(df[i].Genre.s, <<",">>)))]
            /\ Goto("extract_runtime")
    /\ UNCHANGED <<variant, pandas3, raw, insights, ghist>>

\* int() of the digits extracted from one runtime text.
RuntimeMinutes(cell) == DigitsToInt(ExtractDigits(cell).s)

\* astype(int) fails on the NaN that extract leaves for such a text.
RuntimeFails(cell) == IsNull(ExtractDigits(cell))

\* The variant that counts a runtime without digits as 0 minutes and
\* goes on.
ExtractRuntimeZero ==
    /\ pc = "extract_runtime"
    /\ df' = [i \in 1..Len(df) |->
                Ext(df[i], "Runtime_Minutes",
                    IF RuntimeFails(df[i].Runtime) THEN 0
                    ELSE RuntimeMinutes(df[i].Runtime))]
    /\ Goto("decade")
    /\ UNCHANGED <<variant, pandas3, raw, insights, ghist>>

\* df['Runtime'].str.extract(r'(\d+)') and astype(int)
ExtractRuntime ==
    /\ pc = "extract_runtime"
    /\ IF ~HasStrAccessor("Runtime")
       THEN df' = df /\ Raise("AttributeError")
       ELSE IF \E i \in 1..Len(df) : RuntimeFails(df[i].Runtime)
       THEN df' = df /\ Raise("ValueError")
       ELSE /\ df' = [i \in 1..Len(df) |->
                        Ext(df[i], "Runtime_Minutes", RuntimeMinutes(df[i].Runtime))]
            /\ Goto("decade")
    /\ UNCHANGED <<variant, pandas3, raw, insights, ghist>>

\* (df['Released_Year'] // 10) * 10
DecadeOf(year) == (year \div 10) * 10

Decade ==
    /\ pc = "decade"
    /\ df' = [i \in 1..Len(df) |-> Ext(df[i], "Decade", DecadeOf(df[i].Released_Year.v))]
    /\ Goto(IF IsA THEN "clean_genre" ELSE "get_dummies")
    /\ UNCHANGED <<variant, pandas3, raw, insights, ghist>>

\* The distinct values of the column, ascending.
Categories(table, col) ==
    LET vals == { table[i][col] : i \in 1..Len(table) }
        RECURSIVE Asc(_)
        Asc(S) == IF S = {} THEN <<>>
                  ELSE LET m == CHOOSE x \in S : \A y \in S \ {x} : StrLess(x.s, y.s)
                       IN  <<m>> \o Asc(S \ {m})
    IN  Asc(vals)

\* The values that get a flag column: all but the first (drop_first=True).
DummyValues(table) ==
    LET cats == Categories(table, "Certificate")
    IN  IF cats = <<>> THEN {} ELSE { cats[i] : i \in 2..Len(cats) }

\* imdb.py: pd.get_dummies(df, columns=['Certificate'], drop_first=True):
\* the column is replaced by one boolean column per kept value; the
\* columns Certificate_<value> are the field Certificate_flags[value].
GetDummiesRows(table) ==
    LET F(r) == Ext(Del(r, "Certificate"), "Certificate_flags",
                    [v \in DummyValues(table) |-> r.Certificate = v])
    IN  MapRows(table, F)

GetDummies ==
    /\ pc = "get_dummies"
    /\ IsB
    /\ df' = GetDummiesRows(df)
    /\ Goto("clean_genre")
    /\ UNCHANGED <<variant, pandas3, raw, insights, ghist>>

CleanGenre ==
    /\ pc = "clean_genre"
    /\ df' = [i \in 1..Len(df) |-> [df[i] EXCEPT !.Genre = Str(clean_genre(@.s))]]
    /\ Goto(IF IsA THEN "drop_duplicates" ELSE "ensure_numeric")
    /\ UNCHANGED <<variant, pandas3, raw, insights, ghist>>

\* imdb.py: pd.to_numeric(df[col], errors='coerce') for Runtime_Minutes,
\* Gross and Released_Year, which are numeric columns already: pd.to_numeric
\* returns a numeric column as it is.
EnsureNumeric ==
    /\ pc = "ensure_numeric"
    /\ IsB
    /\ df' = df
    /\ Goto("drop_duplicates")
    /\ UNCHANGED <<variant, pandas3, raw, insights, ghist>>

\* The variant keep='last'.
DropDuplicatesLast(table) ==
    SelectIdx(table,
              { i \in 1..Len(table) :
                  \A j \in (i + 1)..Len(table) :
                      table[j].Series_Title # table[i].Series_Title }, 1)

\* df.drop_duplicates(subset=['Series_Title'], keep='first')
DropDuplicatesRows(table) ==
    SelectIdx(table,
              { i \in 1..Len(table) :
                  \A j \in 1..(i - 1) :
                      table[j].Series_Title # table[i].Series_Title }, 1)

DropDuplicates ==
    /\ pc = "drop_duplicates"
    /\ df' = DropDuplicatesRows(df)
    /\ Goto("insight_gross")
    /\ UNCHANGED <<variant, pandas3, raw, insights, ghist>>

----------------------------------------------------------------------------
(* Insights *)

RECURSIVE Concat(_)
Concat(seqs) == IF seqs = <<>> THEN <<>> ELSE Head(seqs) \o Concat(Tail(seqs))

\* df['Genre'].str.split(', ').explode(): the tokens of every row, in
\* table order and, within a row, in the order of its genre string.
all_genres(table) ==
    LET F(r) == Split(r.Genre.s, <<",", " ">>) IN Concat(MapRows(table, F))

Count(seq, x) == Cardinality({ i \in 1..Len(seq) : seq[i] = x })

\* The values with the greatest count.
Modes(seq) ==
    { seq[i] : i \in { k \in 1..Len(seq) :
                         \A j \in 1..Len(seq) : Count(seq, seq[j]) <= Count(seq, seq[k]) } }

\* value_counts().idxmax(): value_counts sorts the counts in descending
\* order with sort_values' default sort (quicksort), which fixes no order
\* among equal counts; idxmax takes the first label of the greatest
\* count.  The result is one of the values with the greatest count.
MostCommon(seq) == Modes(seq)

NonNanRows(table) == { i \in 1..Len(table) : ~IsNull(table[i].Gross) }

\* Series.idxmax(): the first row holding the greatest value, nan skipped.
GrossIdxMax(table) ==
    CHOOSE i \in NonNanRows(table) :
        /\ \A j \in NonNanRows(table) : ~FLess(table[i].Gross, table[j].Gross)
        /\ \A j \in NonNanRows(table) :
              j < i => FLess(table[j].Gross, table[i].Gross)

\* df.loc[df['Gross'].idxmax()].  On no rows idxmax raises ValueError.  On
\* rows that are all nan it raises ValueError under pandas 3 and returns
\* nan before, which df.loc rejects with KeyError.  imdb.py catches
\* ValueError only; IMDB_data_analysis.py catches nothing.
InsightGross ==
    /\ pc = "insight_gross"
    /\ IF NonNanRows(df) # {}
       THEN /\ insights' = [insights EXCEPT !.highest_gross =
                               Found(df[GrossIdxMax(df)].Series_Title)]
            /\ Goto("insight_genre")
       ELSE IF IsB /\ (Len(df) = 0 \/ pandas3)
       THEN /\ insights' = [insights EXCEPT !.highest_gross = Unavailable]
            /\ Goto("insight_genre")
       ELSE /\ insights' = insights
            /\ Raise(IF Len(df) = 0 \/ pandas3 THEN "ValueError" ELSE "KeyError")
    /\ UNCHANGED <<variant, pandas3, raw, df, ghist>>

\* idxmax of the counts of no tokens raises ValueError; imdb.py catches
\* every Exception here, IMDB_data_analysis.py none.
InsightGenre ==
    /\ pc = "insight_genre"
    /\ IF all_genres(df) # <<>>
       THEN /\ \E g \in MostCommon(all_genres(df)) :
                  insights' = [insights EXCEPT !.most_common_genre = Found(Str(g))]
            /\ Goto(IF IsA THEN "insight_director" ELSE "charts")
       ELSE IF IsB
       THEN /\ insights' = [insights EXCEPT !.most_common_genre = Unavailable]
            /\ Goto("charts")
       ELSE insights' = insights /\ Raise("ValueError")
    /\ UNCHANGED <<variant, pandas3, raw, df, ghist>>

\* IMDB_data_analysis.py: df['Director'].value_counts().idxmax()
InsightDirector ==
    /\ pc = "insight_director"
    /\ IsA
    /\ IF Len(df) > 0
       THEN /\ \E d \in MostCommon(Column(df, "Director")) :
                  insights' = [insights EXCEPT !.top_director = Found(d)]
            /\ Goto("charts")
       ELSE insights' = insights /\ Raise("ValueError")
    /\ UNCHANGED <<variant, pandas3, raw, df, ghist>>

Next ==
    \/ FillCertificate
    \/ ParseGross
    \/ FillGross
    \/ DropCritical
    \/ ParseYear
    \/ NumGenres
    \/ ExtractRuntime
    \/ Decade
    \/ GetDummies
    \/ CleanGenre
    \/ EnsureNumeric
    \/ DropDuplicates
    \/ InsightGross
    \/ InsightGenre
    \/ InsightDirector

Spec == Init /\ [][Next]_vars

----------------------------------------------------------------------------
(* Genre normalization on its own *)

GenreAlphabet == {"a", "B", " ", ","}

GenreStrings == UNION { [1..n -> GenreAlphabet] : n \in 0..MaxLen }

InitGenre ==
    /\ variant = "imdb"
    /\ pandas3 = FALSE
    /\ raw = <<>>
    /\ df = <<>>
    /\ pc = "clean_genre_only"
    /\ err = ""
    /\ insights = NoInsights
    /\ ghist \in { <<g>> : g \in GenreStrings }

\* df['Genre'].apply(clean_genre) on one cell, applied once more.
ApplyCleanGenre ==
    /\ pc = "clean_genre_only"
    /\ Len(ghist) < 3
    /\ ghist' = Append(ghist, clean_genre(ghist[Len(ghist)]))
    /\ UNCHANGED <<variant, pandas3, raw, df, pc, err, insights>>

NextGenre == ApplyCleanGenre

SpecGenre == InitGenre /\ [][NextGenre]_vars

----------------------------------------------------------------------------
(* Properties *)

CleaningPcs ==
    {"fill_certificate", "parse_gross", "fill_gross", "drop_critical", "parse_year"}

BeforeExtractPcs == CleaningPcs \cup {"num_genres", "extract_runtime"}

FeaturePcs == {"decade", "get_dummies", "clean_genre", "ensure_numeric", "drop_duplicates"}

InsightPcs == {"insight_gross", "insight_genre", "insight_director"}

AfterYearPcs ==
    {"num_genres", "extract_runtime"} \cup FeaturePcs \cup InsightPcs \cup {"charts"}

Rows == 1..Len(df)

TitlesUnique(table) ==
    \A i, j \in 1..Len(table) : i < j => table[i].Series_Title # table[j].Series_Title

\* The certificate a row has after the repair, from the raw table.
RepairedCertificate(i) ==
    IF IsNull(raw[i].Certificate) THEN Txt_NotRated ELSE raw[i].Certificate

C1_Step ==
    pc = "drop_duplicates" =>
        /\ TitlesUnique(df')
        /\ \A i, j \in 1..Len(df') : i < j => df'[i].idx < df'[j].idx
        /\ \A k \in 1..Len(df') :
              \E i \in Rows :
                  /\ df[i] = df'[k]
                  /\ \A j \in 1..(i - 1) : df[j].Series_Title # df[i].Series_Title
        /\ \A i \in Rows :
              \E k \in 1..Len(df') : df'[k].Series_Title = df[i].Series_Title

\* C1: the de-duplication step leaves no two rows with the same title,
\* keeps for every title the earliest of the rows that reached the step,
\* and keeps the survivors in their order.
C1_DedupKeepsFirst == [][C1_Step]_vars

C1_Witness ==
    /\ pc = "insight_gross"
    /\ Len(raw) = 3
    /\ raw[1].Series_Title = Txt_A
    /\ raw[2].Series_Title = Txt_B
    /\ raw[3].Series_Title = Txt_A
    /\ Len(df) = 2
    /\ df[1].idx = 1
    /\ df[2].idx = 2

\* C2: on a run that does not abort, the certificate repair drops no row
\* and turns every missing certificate into "Not Rated", and once the
\* release year is parsed no row of the table misses its genre, director,
\* title, release year or certificate: the rows that missed one are gone.
C2_NoMissingField ==
    /\ pc = "parse_gross" =>
          /\ Len(df) = Len(raw)
          /\ \A i \in Rows : df[i].idx = i /\ df[i].Certificate = RepairedCertificate(i)
    /\ pc \in AfterYearPcs =>
          \A i \in Rows :
              /\ ~IsNull(df[i].Genre) /\ ~IsNull(raw[df[i].idx].Genre)
              /\ ~IsNull(df[i].Director) /\ ~IsNull(raw[df[i].idx].Director)
              /\ ~IsNull(df[i].Series_Title) /\ ~IsNull(raw[df[i].idx].Series_Title)
              /\ df[i].Released_Year.kind = "int"
              /\ StrToNumeric(raw[df[i].idx].Released_Year).kind = "fin"
              /\ "Certificate" \in DOMAIN df[i] =>
                    df[i].Certificate = RepairedCertificate(df[i].idx)

C2_Witness ==
    /\ pc = "charts"
    /\ \E i \in Rows : IsNull(raw[df[i].idx].Certificate)
    /\ \E j \in 1..Len(raw) : IsNull(raw[j].Director)
    /\ \E j \in 1..Len(raw) : IsNull(raw[j].Released_Year)

\* The gross column as the specification describes it: commas stripped, parsed,
\* and the median of the parsed values in place of the missing ones.
ExpectedGross(i) ==
    LET parsed == [k \in 1..Len(raw) |-> StrToNumeric(StripCommas(raw[k].Gross))] \o <<>>
    IN  IF IsNull(parsed[i]) THEN Median(parsed) ELSE parsed[i]

\* C3: after the gross step every row whose raw gross is missing or no
\* number (commas stripped) holds the median of the parseable values, every
\* other row holds its own parsed value, and with no parseable value
\* nothing is filled in; in both entry points.
C3_MedianFill ==
    pc = "drop_critical" => \A i \in Rows : df[i].Gross = ExpectedGross(i)

C4_Step ==
    (Len(df) = 0 /\ pc \in InsightPcs) =>
        /\ pc' # "aborted"
        /\ pc' = "charts" =>
              /\ insights'.highest_gross = Unavailable
              /\ insights'.most_common_genre = Unavailable
              /\ insights'.top_director = Unavailable

\* C4: on an empty cleaned table the insight step raises nothing and
\* reports each of the three lookups as unavailable.
C4_EmptyTableUnavailable == [][C4_Step]_vars

\* C5: normalizing a normalized genre string changes nothing.
C5_Idempotent == Len(ghist) = 3 => ghist[3] = ghist[2]

C5_Witness ==
    /\ Len(ghist) = 3
    /\ ghist[1] = <<" ", "a", ",", "B">>
    /\ ghist[2] = <<"B", ",", " ", "a">>

\* The first value, in the order of the sequence, of the greatest count.
FirstMode(seq) ==
    seq[CHOOSE k \in 1..Len(seq) :
            /\ seq[k] \in Modes(seq)
            /\ \A j \in 1..(k - 1) : seq[j] \notin Modes(seq)]

\* C6: the most common genre and the most common director are values of
\* the greatest count, and among several of them the one met first in
\* table order.
C6_FirstEncounteredTieBreak ==
    /\ insights.most_common_genre.status = "value" =>
          insights.most_common_genre.value = Str(FirstMode(all_genres(df)))
    /\ insights.top_director.status = "value" =>
          insights.top_director.value = FirstMode(Column(df, "Director"))

HasDigit(cell) == cell.kind = "str" /\ \E i \in 1..Len(cell.s) : cell.s[i] \in Digits

\* The number written by the first maximal run of digits of the text.
FirstRunValue(text) ==
    LET a == CHOOSE i \in 1..Len(text) :
                 text[i] \in Digits /\ \A j \in 1..(i - 1) : text[j] \notin Digits
        b == CHOOSE i \in a..Len(text) :
                 /\ \A j \in a..i : text[j] \in Digits
                 /\ i = Len(text) \/ text[i + 1] \notin Digits
    IN  DigitsToInt(SubSeq(text, a, b))

C7_State ==
    /\ \A i \in Rows :
          "Runtime_Minutes" \in DOMAIN df[i] =>
              /\ HasDigit(df[i].Runtime)
              /\ df[i].Runtime_Minutes = FirstRunValue(df[i].Runtime.s)
    /\ (\E i \in Rows : ~HasDigit(df[i].Runtime)) =>
          /\ pc \in BeforeExtractPcs \cup {"aborted"}
          /\ insights = NoInsights

C7_Step ==
    pc = "extract_runtime" =>
        IF \E i \in Rows : ~HasDigit(df[i].Runtime)
        THEN pc' = "aborted" /\ df' = df
        ELSE HasStrAccessor("Runtime") =>
                /\ pc' = "decade"
                /\ Len(df') = Len(df)
                /\ \A i \in Rows : df'[i].Runtime_Minutes = FirstRunValue(df[i].Runtime.s)

C8_Step ==
    pc \in CleaningPcs =>
        /\ pc' # "aborted"
        /\ pc = "parse_year" =>
              /\ \A k \in 1..Len(df') :
                    \E i \in Rows :
                        /\ df[i].idx = df'[k].idx
                        /\ StrToNumeric(df[i].Released_Year).kind = "fin"
                        /\ df'[k].Released_Year = Int64(Trunc(StrToNumeric(df[i].Released_Year)))
              /\ \A i \in Rows :
                    StrToNumeric(df[i].Released_Year).kind = "nan" =>
                        \A k \in 1..Len(df') : df'[k].idx # df[i].idx

\* C8: no release year and no gross makes a cleaning step raise: the
\* rows whose release year is no number are dropped and the others keep
\* the integer they wrote.
C8_CleaningNeverRaises == [][C8_Step]_vars

\* C9: the flag columns of imdb.py are the distinct certificates of the
\* cleaned table but the first in sorted order, and a row's flag is true
\* exactly for its own certificate.
C9_OneHotOfCleanedTable ==
    (IsB /\ pc = "charts") =>
        LET certs == { RepairedCertificate(df[i].idx) : i \in Rows }
            ref   == CHOOSE c \in certs : \A d \in certs \ {c} : StrLess(c.s, d.s)
        IN  \A i \in Rows :
                /\ DOMAIN df[i].Certificate_flags = certs \ {ref}
                /\ \A v \in certs \ {ref} :
                      df[i].Certificate_flags[v] <=> (RepairedCertificate(df[i].idx) = v)

DerivedColumns == {"Num_Genres", "Runtime_Minutes", "Decade", "Certificate_flags"}

\* C10: every cleaning step, the de-duplication included, is over before
\* a derived field is computed: a table that holds a derived column holds
\* no later duplicate of a title.
C10_CleaningBeforeFeatures ==
    (\E i \in Rows : DOMAIN df[i] \cap DerivedColumns # {}) => TitlesUnique(df)

=============================================================================
